---- MODULE Spec2Model ----
(***************************************************************************)
(* Model of JIANZHI.py (NeuroScale): the MetabolicEngine arithmetic, the   *)
(* DataGateway.search_product response handling, the image-classification  *)
(* step of main() with its portion scaling, and the FoodLog of the design  *)
(* document.                                                               *)
(*                                                                         *)
(* Numbers.  Python floats are modelled as exact fixed-point decimals: a   *)
(* quantity q is the integer q * Scale.  Scale is chosen so that every     *)
(* product with a program constant (0.25, 6.25, the activity and goal      *)
(* multipliers) is exact on the inputs the model draws; int(x) is          *)
(* truncation toward zero, as in Python.  Binary rounding error of IEEE    *)
(* doubles (relative 1e-16) is not modelled.                               *)
(***************************************************************************)
EXTENDS Integers, Sequences, FiniteSets, TLC

VARIABLES
    mode,        \* which part of the program the behaviour exercises
    pc,          \* position of the current user action / call
    gender, age, height, weight, activity_key, goal_key,   \* sidebar widgets
    bmr, target_calories,                                  \* locals of the button handler
    tdee, weight_kg,                                       \* arguments of partition_macros
    macros,      \* value returned by partition_macros
    response,    \* what requests.get(...) meets: the transport outcome and the reply
    db_results,  \* value returned by DataGateway.search_product
    raised,      \* TRUE when an exception left the call or the user action
    model_cache, \* st.cache_resource entry of load_vision_model: "empty", "classifier", "None"
    layout_call, model_load, classifier_call,   \* what the library calls of this run did
    outcome,     \* what the image tab shows after the run
    selected_food, portion,                     \* the selectbox and number_input values
    result_df,   \* the scaled column of the table
    food_log,    \* FoodLog: the logged entries, oldest first
    next_id,     \* number of entries appended so far, plus one
    log_before, removed_display   \* the log before the last removal and the displayed position removed (-1: none)

engineVars == <<gender, age, height, weight, activity_key, goal_key,
                bmr, target_calories, tdee, weight_kg, macros>>

gatewayVars == <<response, db_results, raised>>

visionVars == <<model_cache, layout_call, model_load, classifier_call, outcome,
                selected_food, portion, result_df>>

logVars == <<food_log, next_id, log_before, removed_display>>

vars == <<mode, pc, engineVars, gatewayVars, visionVars, logVars>>

None == "None"

(***************************************************************************)
(* Fixed-point arithmetic                                                  *)
(***************************************************************************)
\* units per 1.0: quarters (6.25, 0.25) x fortieths (activity) x twentieths (goal) x 4
Scale == 4 * 40 * 20 * 4

Max(a, b) == IF a >= b THEN a ELSE b

\* trunc(num / den) toward zero, den > 0
TruncDiv(num, den) == IF num >= 0 THEN num \div den ELSE -((-num) \div den)

\* Python int(x) of a float x (in Scale units): an integer, truncated toward zero
int(x) == TruncDiv(x, Scale)

\* x * (n / d) for a decimal constant n/d; exact when d divides x
MulDec(x, n, d) == (x \div d) * n

\* an integer widget value as a float
Float(i) == i * Scale

(***************************************************************************)
(* MetabolicEngine                                                         *)
(***************************************************************************)
\* the two options of the gender radio (the source compares with the first one)
Male == "male"
Female == "female"
Genders == {Male, Female}

\* activity multipliers, in fortieths: 1.2, 1.375, 1.55, 1.725, 1.9
ACTIVITY_LEVELS ==
    [k \in {"Sedentary", "Lightly Active", "Moderately Active", "Very Active", "Extra Active"} |->
        CASE k = "Sedentary" -> 48
          [] k = "Lightly Active" -> 55
          [] k = "Moderately Active" -> 62
          [] k = "Very Active" -> 69
          [] k = "Extra Active" -> 76]

\* goal multipliers, in twentieths: 1.10, 1.0, 0.85
GOAL_MODIFIERS_CuttingMistyped ==
    [k \in {"Lean Bulk", "Recomposition", "Cutting"} |->
        CASE k = "Lean Bulk" -> 22
          [] k = "Recomposition" -> 20
          [] k = "Cutting" -> 3]

GOAL_MODIFIERS ==
    [k \in {"Lean Bulk", "Recomposition", "Cutting"} |->
        CASE k = "Lean Bulk" -> 22
          [] k = "Recomposition" -> 20
          [] k = "Cutting" -> 17]

calculate_bmr_SwappedConstant(w, h, a, g) ==
    LET base == (10 * w) + MulDec(h, 25, 4) - (5 * a)
    IN  IF g = Male THEN base + Float(5) ELSE base - Float(160)

\* Mifflin-St Jeor; w, h, a in Scale units
calculate_bmr(w, h, a, g) ==
    LET base == (10 * w) + MulDec(h, 25, 4) - (5 * a)
    IN  IF g = Male THEN base + Float(5) ELSE base - Float(161)

remaining_kcal_Unclamped(t, protein_kcal, fat_kcal) == t - protein_kcal - fat_kcal

remaining_kcal_FatForgotten(t, protein_kcal, fat_kcal) == Max(0, t - protein_kcal)

\* remaining_kcal = max(0, tdee - protein_kcal - fat_kcal)
remaining_kcal(t, protein_kcal, fat_kcal) == Max(0, t - protein_kcal - fat_kcal)

\* protein_g = weight_kg * 2.0
protein_g(w) == w * 2

partition_macros(t, w) ==
    LET pg == protein_g(w)
        protein_kcal == pg * 4
        fat_kcal == MulDec(t, 1, 4)
        rem == remaining_kcal(t, protein_kcal, fat_kcal)
    IN  [ Protein |-> [g |-> int(pg), kcal |-> int(protein_kcal)],
          Fat     |-> [g |-> TruncDiv(fat_kcal, 9 * Scale), kcal |-> int(fat_kcal)],
          Carbs   |-> [g |-> TruncDiv(rem, 4 * Scale), kcal |-> int(rem)],
          Total   |-> int(t) ]

(***************************************************************************)
(* Inputs                                                                  *)
(***************************************************************************)
\* sidebar widget ranges
MinAge == 18
MaxAge == 80
MinHeight == 140
MaxHeight == 220
MinWeight == 40
MaxWeight == 150
DefaultAge == 25
DefaultHeight == 175
DefaultWeight == 70

\* number of evenly spread values of each widget range the model lets the user pick
WeightSamples == 23
HeightSamples == 9
AgeSamples == 5

Samples(lo, hi, n) == { lo + ((hi - lo) * k) \div (n - 1) : k \in 0..(n - 1) }

Weights == Samples(MinWeight, MaxWeight, WeightSamples) \cup {DefaultWeight}
Heights == Samples(MinHeight, MaxHeight, HeightSamples) \cup {DefaultHeight}
Ages == Samples(MinAge, MaxAge, AgeSamples) \cup {DefaultAge}

\* arguments of a direct partition_macros call: tdee in steps of 37.7 kcal from
\* -MaxTdeeSteps to MaxTdeeSteps plus three full-size values, weight in steps of 2.3 kg
MaxTdeeSteps == 40
MaxWeightSteps == 20
TdeeArgs == { MulDec(Float(k), 377, 10) : k \in (-MaxTdeeSteps)..MaxTdeeSteps }
              \cup { MulDec(Float(k), 1, 2) : k \in {4017, 2400, 1199} }
WeightArgs == { MulDec(Float(k), 23, 10) : k \in 1..MaxWeightSteps } \cup { Float(70), Float(150) }

(***************************************************************************)
(* Initial state: the sidebar defaults, nothing searched, nothing cached   *)
(***************************************************************************)
EngineInit ==
    /\ gender = Male
    /\ age = DefaultAge
    /\ height = DefaultHeight
    /\ weight = DefaultWeight
    /\ activity_key = "Sedentary"
    /\ goal_key = "Lean Bulk"
    /\ bmr = None
    /\ target_calories = None
    /\ tdee = None
    /\ weight_kg = None
    /\ macros = None

GatewayInit ==
    /\ response = None
    /\ db_results = <<>>
    /\ raised = FALSE

\* the preset value of the portion input
DefaultPortion == 100

VisionInit ==
    /\ model_cache = "empty"
    /\ layout_call = "not_called"
    /\ model_load = "not_called"
    /\ classifier_call = "not_called"
    /\ outcome = "idle"
    /\ selected_food = None
    /\ portion = DefaultPortion
    /\ result_df = None

LogInit ==
    /\ food_log = <<>>
    /\ next_id = 1
    /\ log_before = <<>>
    /\ removed_display = -1

(***************************************************************************)
(* DataGateway: the external reply                                         *)
(*                                                                         *)
(* A JSON value of the reply is a record with the same fields whatever its *)
(* type, the type being the field t or kind.  Numbers are in hundredths.   *)
(***************************************************************************)
RawAbsent == [t |-> "absent", s |-> "", n |-> 0]      \* the key is not in the map
RawNull == [t |-> "null", s |-> "", n |-> 0]          \* JSON null, Python None
RawStr(x) == [t |-> "str", s |-> x, n |-> 0]
RawNum(k) == [t |-> "num", s |-> "", n |-> k]

EnergyKey == "energy-kcal_100g"
NutrientKeys == {EnergyKey, "proteins_100g", "carbohydrates_100g", "fat_100g"}

\* raw values of a nutriments key: absent, null, a non-numeric string, a numeric
\* string, a negative number, zero, a positive number
RawValues == {RawAbsent, RawNull, RawStr("abc"), RawStr("12.5"), RawNum(-300), RawNum(0), RawNum(5250)}

PlainMap == [k \in NutrientKeys |-> IF k = EnergyKey THEN RawNum(5250) ELSE RawNum(125)]
EmptyMap == [k \in NutrientKeys |-> RawAbsent]

\* an element of the 'products' array
Elem(kind, has_nutriments, nutriments_kind, contains, vals, product_name) ==
    [ kind |-> kind,                         \* "obj", or the type of a non-object element
      has_nutriments |-> has_nutriments,     \* the object has the key 'nutriments'
      nutriments_kind |-> nutriments_kind,   \* "map", "null", "num", "str", "list"
      contains |-> contains,                 \* a str/list nutriments contains EnergyKey
      vals |-> vals,                         \* the entries of a map nutriments
      product_name |-> product_name,
      code |-> 0 ]

ElemStr == Elem("str", FALSE, "map", FALSE, EmptyMap, RawAbsent)
ObjNoNutriments == Elem("obj", FALSE, "map", FALSE, EmptyMap, RawStr("water"))
ObjNutrimentsNull == Elem("obj", TRUE, "null", FALSE, EmptyMap, RawStr("salt"))
ObjNutrimentsNum == Elem("obj", TRUE, "num", FALSE, EmptyMap, RawStr("ice"))
ObjNutrimentsStr(c) == Elem("obj", TRUE, "str", c, EmptyMap, RawStr("tea"))
ObjNutrimentsList(c) == Elem("obj", TRUE, "list", c, EmptyMap, RawStr("gum"))
ObjMap(vals, product_name) == Elem("obj", TRUE, "map", FALSE, vals, product_name)
ObjPlain == ObjMap(PlainMap, RawStr("apple"))
ObjNoEnergy == ObjMap([PlainMap EXCEPT ![EnergyKey] = RawAbsent], RawStr("stone"))

SmallElems ==
    { ElemStr, ObjNoNutriments, ObjNutrimentsNull, ObjNutrimentsStr(FALSE), ObjNutrimentsStr(TRUE),
      ObjNutrimentsList(FALSE), ObjNutrimentsList(TRUE), ObjPlain, ObjNoEnergy }

\* nutriments maps: any raw energy value, and at most one of the other three keys
\* away from a plain number
\* the small elements an OddMaps object shares an array with
OddCompanions == {ElemStr, ObjNoNutriments, ObjNutrimentsNull, ObjNutrimentsStr(FALSE), ObjPlain}

OddMaps ==
    { [PlainMap EXCEPT ![EnergyKey] = e, ![k] = v] :
        e \in RawValues, k \in NutrientKeys \ {EnergyKey}, v \in RawValues \cup {RawNum(125)} }

\* longest 'products' array the model replies with
MaxProducts == 3

\* the element's position in the reply as its 'code'
WithCodes(seq) == [i \in DOMAIN seq |-> [seq[i] EXCEPT !.code = i]]

\* an array of small elements with the element at position `at` replaced by an
\* object that carries the nutriments map m
OddList(l, at, m) == [i \in DOMAIN l |-> IF i = at THEN ObjMap(m, RawAbsent) ELSE l[i]]

Body(kind, has_products, products_kind, elems) ==
    [ kind |-> kind,                     \* "not_json", "object", or the type of a non-object body
      has_products |-> has_products,     \* the object has the key 'products'
      products_kind |-> products_kind,   \* "list", "null", "num", "str", "dict"
      elems |-> WithCodes(elems) ]       \* what iterating over 'products' yields

Reply(transport, status_code, body) ==
    [ transport |-> transport,           \* "ok", or "raises" (connection error, timeout)
      status_code |-> status_code,
      body |-> body ]

EmptyBody == Body("object", FALSE, "list", <<>>)

ListReply(l) == Reply("ok", 200, Body("object", TRUE, "list", l))

FailureReplies ==
    { Reply("raises", 0, EmptyBody) }
    \cup { Reply("ok", c, Body("object", TRUE, "list", <<ObjPlain>>)) : c \in {404, 500} }
    \cup { Reply("ok", 200, Body(k, FALSE, "list", <<>>)) : k \in {"not_json", "list", "str", "num", "null"} }
    \cup { Reply("ok", 200, EmptyBody) }
    \cup { Reply("ok", 200, Body("object", TRUE, k, <<>>)) : k \in {"null", "num", "str", "dict"} }
    \cup { Reply("ok", 200, Body("object", TRUE, k, <<ElemStr>>)) : k \in {"str", "dict"} }
    \cup { ListReply(<<ObjPlain, ObjNutrimentsNum>>) }

(***************************************************************************)
(* DataGateway.search_product                                              *)
(***************************************************************************)
Returns(v) == [exc |-> FALSE, value |-> v]
Raises == [exc |-> TRUE, value |-> <<>>]

\* dict.get(key, 0) on the nutriments map
get_nutrient(vals, key) == IF vals[key].t = "absent" THEN RawNum(0) ELSE vals[key]

\* p.get("product_name", <unknown item>)
get_name(p) == IF p.product_name.t = "absent" THEN RawStr("unknown item") ELSE p.product_name

\* the membership test: the key the record is filtered on
filter_key_Protein == "proteins_100g"

filter_key == EnergyKey

\* "energy-kcal_100g" in nutrients, for a str, list or map nutrients
in_nutrients(p) ==
    IF ~p.has_nutriments THEN FALSE                      \* the default {}
    ELSE IF p.nutriments_kind = "map" THEN p.vals[filter_key].t # "absent"
    ELSE p.contains

clean_record(p) ==
    [ name |-> get_name(p),
      kcal |-> get_nutrient(p.vals, EnergyKey),
      protein |-> get_nutrient(p.vals, "proteins_100g"),
      carbs |-> get_nutrient(p.vals, "carbohydrates_100g"),
      fat |-> get_nutrient(p.vals, "fat_100g"),
      id |-> p.code ]

RECURSIVE clean_loop(_, _, _)
\* the for loop over products, from element i on, with clean_results so far
clean_loop(elems, i, clean_results) ==
    IF i > Len(elems) THEN Returns(clean_results)
    ELSE LET p == elems[i]
         IN  IF p.kind # "obj" THEN Raises                                  \* p.get: AttributeError
             ELSE IF p.has_nutriments /\ p.nutriments_kind \in {"null", "num"} THEN Raises  \* in None: TypeError
             ELSE IF ~in_nutrients(p) THEN clean_loop(elems, i + 1, clean_results)
             ELSE IF p.nutriments_kind # "map" THEN Raises                  \* nutrients.get: AttributeError
             ELSE clean_loop(elems, i + 1, Append(clean_results, clean_record(p)))

\* the body of the try block
search_product_try(r) ==
    IF r.transport = "raises" THEN Raises
    ELSE IF r.status_code # 200 THEN Returns(<<>>)
    ELSE IF r.body.kind = "not_json" THEN Raises                            \* response.json()
    ELSE IF r.body.kind # "object" THEN Raises                              \* data.get: AttributeError
    ELSE IF ~r.body.has_products THEN Returns(<<>>)                         \* the default []
    ELSE IF r.body.products_kind \in {"null", "num"} THEN Raises            \* not iterable
    ELSE clean_loop(r.body.elems, 1, <<>>)

search_product_Uncaught(r) == search_product_try(r)

\* try: ... except Exception: return []
search_product(r) ==
    LET out == search_product_try(r)
    IN  IF out.exc THEN Returns(<<>>) ELSE out

\* one call of search_product, meeting the reply r
Search(r) ==
    /\ response' = r
    /\ LET out == search_product(r)
       IN  /\ db_results' = out.value
           /\ raised' = out.exc

\* search_product called directly, on an arbitrary reply
CallSearchProduct ==
    /\ mode = "gateway"
    /\ pc = "idle"
    /\ \/ \E r \in FailureReplies : Search(r)
       \/ \E n \in 0..MaxProducts : \E l \in [1..n -> SmallElems] : Search(ListReply(l))
       \/ \E n \in 1..MaxProducts : \E l \in [1..n -> OddCompanions] :
             \E at \in 1..n, m \in OddMaps : Search(ListReply(OddList(l, at, m)))
    /\ pc' = "returned"
    /\ UNCHANGED <<mode, engineVars, visionVars, logVars>>

\* the next call starts from scratch
NextQuery ==
    /\ mode = "gateway"
    /\ pc = "returned"
    /\ pc' = "idle"
    /\ response' = None
    /\ db_results' = <<>>
    /\ raised' = FALSE
    /\ UNCHANGED <<mode, engineVars, visionVars, logVars>>

InitGateway ==
    /\ mode = "gateway"
    /\ pc = "idle"
    /\ EngineInit
    /\ GatewayInit
    /\ VisionInit
    /\ LogInit

NextGateway == CallSearchProduct \/ NextQuery

SpecGateway == InitGateway /\ [][NextGateway]_vars

(***************************************************************************)
(* main(): the image tab                                                   *)
(***************************************************************************)
Portions == {DefaultPortion, 30, 250}

\* labels of the classifier, and label.replace("_", " ")
Labels == {"apple_pie", "ramen"}
replace_underscores(label) == IF label = "apple_pie" THEN "apple pie" ELSE label

\* raw values of a record that reaches the table: null, a numeric string, and
\* numbers with no, one and two decimals, below zero and on a rounding tie
ScaledValues ==
    { RawNull, RawStr("12.5"), RawNum(-300), RawNum(0), RawNum(25), RawNum(327),
      RawNum(5250), RawNum(8999) }

VisionMaps ==
    { [PlainMap EXCEPT ![EnergyKey] = e, ![k] = v] :
        e \in ScaledValues, k \in NutrientKeys \ {EnergyKey}, v \in ScaledValues }

VisionCompanions == {ObjPlain, ObjNoEnergy}

\* longest 'products' array the search of the image tab is answered with
MaxShown == 2

IsNum(v) == v.t = "num"

\* int(kcal * ratio), ratio = portion / 100.0; n in hundredths
scaled_kcal(n, p) == TruncDiv(n * p, 10000)

round_0(n, p) ==
    LET q == (n * p) \div 10000
        r == (n * p) % 10000
    IN  IF 2 * r < 10000 THEN {10 * q}
        ELSE IF 2 * r > 10000 THEN {10 * (q + 1)}
        ELSE {10 * q, 10 * (q + 1)}

\* round(x * ratio, 1), in tenths: the nearest tenth; on a decimal tie the double
\* nearest to the product decides, so either neighbour
round_1(n, p) ==
    LET q == (n * p) \div 1000
        r == (n * p) % 1000
    IN  IF 2 * r < 1000 THEN {q}
        ELSE IF 2 * r > 1000 THEN {q + 1}
        ELSE {q, q + 1}

\* next(item for item in db_results if item['name'] == selected_item_name)
first_with_name(results, name) ==
    results[CHOOSE i \in DOMAIN results :
                /\ results[i].name = name
                /\ \A j \in 1..(i - 1) : results[j].name # name]

\* the run ends with an exception that nothing catches
Crash ==
    /\ outcome' = "crashed"
    /\ raised' = TRUE

NoSearch == response' = None /\ db_results' = <<>>
NoTable == selected_food' = None /\ portion' = DefaultPortion /\ result_df' = None

\* the table of the selected food, for the record `food` and the portion p
ShowTable(food, p) ==
    /\ selected_food' = food
    /\ portion' = p
    /\ IF IsNum(food.kcal) /\ IsNum(food.protein) /\ IsNum(food.carbs) /\ IsNum(food.fat)
       THEN /\ \E pr \in round_1(food.protein.n, p), cb \in round_1(food.carbs.n, p),
                  ft \in round_1(food.fat.n, p) :
                  result_df' = [kcal |-> scaled_kcal(food.kcal.n, p),
                                protein |-> pr, carbs |-> cb, fat |-> ft]
            /\ outcome' = "table"
            /\ raised' = FALSE
       ELSE /\ result_df' = None          \* None * ratio, "12.5" * ratio: TypeError
            /\ Crash

\* after the label is shown: search_product and the table
SearchAndShow(r) ==
    /\ response' = r
    /\ LET results == search_product(r).value
       IN  /\ db_results' = results
           /\ IF results # <<>>
              THEN \E i \in DOMAIN results, p \in Portions :
                      ShowTable(first_with_name(results, results[i].name), p)
              ELSE /\ outcome' = "no_results"
                   /\ raised' = FALSE
                   /\ NoTable

\* load_vision_model() behind st.cache_resource: the first call runs the loader
\* and its return value, None included, is kept for the life of the process
LoadVisionModel(load) ==
    IF model_cache = "empty"
    THEN /\ model_load' = load
         /\ model_cache' = IF load = "ok" THEN "classifier" ELSE "None"
    ELSE /\ model_load' = "cached"
         /\ UNCHANGED model_cache

\* one run of the script with an uploaded image.  The library calls (st.columns,
\* Image.open, st.image; pipeline; the classifier) return or raise as the
\* environment decides.
ClassifyImage ==
    /\ mode = "vision"
    /\ pc = "idle"
    /\ pc' = "done"
    /\ \E layout \in {"ok", "raises"}, load \in {"ok", "raises"}, call \in Labels \cup {"raises"} :
          /\ layout_call' = layout
          /\ IF layout = "raises"
             THEN /\ Crash
                  /\ model_load' = "not_called"
                  /\ classifier_call' = "not_called"
                  /\ UNCHANGED model_cache
                  /\ NoSearch /\ NoTable
             ELSE /\ LoadVisionModel(load)
                  /\ IF model_cache' = "None"
                     THEN /\ classifier_call' = "not_called"
                          /\ outcome' = "unavailable"
                          /\ raised' = FALSE
                          /\ NoSearch /\ NoTable
                     ELSE /\ classifier_call' = call
                          /\ IF call = "raises"
                             THEN Crash /\ NoSearch /\ NoTable
                             ELSE \/ \E r \in FailureReplies : SearchAndShow(r)
                                  \/ \E n \in 0..MaxShown : \E l \in [1..n -> VisionCompanions] :
                                        SearchAndShow(ListReply(l))
                                  \/ \E n \in 1..MaxShown : \E l \in [1..n -> VisionCompanions] :
                                        \E at \in 1..n, m \in VisionMaps :
                                           SearchAndShow(ListReply(OddList(l, at, m)))
    /\ UNCHANGED <<mode, engineVars, logVars>>

\* the user removes the upload: the next run shows the empty tab
ClearUpload ==
    /\ mode = "vision"
    /\ pc = "done"
    /\ pc' = "idle"
    /\ layout_call' = "not_called"
    /\ model_load' = "not_called"
    /\ classifier_call' = "not_called"
    /\ outcome' = "idle"
    /\ raised' = FALSE
    /\ NoSearch /\ NoTable
    /\ UNCHANGED <<mode, engineVars, logVars, model_cache>>

InitVision ==
    /\ mode = "vision"
    /\ pc = "idle"
    /\ EngineInit
    /\ GatewayInit
    /\ VisionInit
    /\ LogInit

NextVision == ClassifyImage \/ ClearUpload

SpecVision == InitVision /\ [][NextVision]_vars

(***************************************************************************)
(* FoodLog (design document, sections 4.5 and 9): entries in chronological *)
(* order, shown newest first, removed by displayed position                *)
(***************************************************************************)
\* most entries in the log, and most appends in a session
MaxLogLength == 4
MaxAppends == 6

EntryNames == {"apple", "rice"}

chronological_index_OffByOne(length, displayed_index) == length - displayed_index

\* chronologicalIndex = length - 1 - displayedIndex (indices from 0)
chronological_index(length, displayed_index) == length - 1 - displayed_index

\* removeAt(chronologicalIndex), index from 0: removes exactly that entry; an
\* index outside the log removes nothing
remove_at(log, index) ==
    IF index \in 0..(Len(log) - 1)
    THEN [i \in 1..(Len(log) - 1) |-> IF i <= index THEN log[i] ELSE log[i + 1]]
    ELSE log

\* the newest-first view of the log
reverse_view(log) == [d \in 1..Len(log) |-> log[Len(log) + 1 - d]]

\* append(entry): adds to the end
AppendEntry ==
    /\ mode = "log"
    /\ Len(food_log) < MaxLogLength
    /\ next_id <= MaxAppends
    /\ \E name \in EntryNames : food_log' = Append(food_log, [id |-> next_id, name |-> name])
    /\ next_id' = next_id + 1
    /\ log_before' = <<>>
    /\ removed_display' = -1
    /\ UNCHANGED <<mode, pc, engineVars, gatewayVars, visionVars>>

\* the user removes the entry shown at position d (from 0) of the newest-first view
RemoveDisplayed ==
    /\ mode = "log"
    /\ food_log # <<>>
    /\ \E d \in 0..(Len(food_log) - 1) :
          /\ food_log' = remove_at(food_log, chronological_index(Len(food_log), d))
          /\ removed_display' = d
    /\ log_before' = food_log
    /\ UNCHANGED <<mode, pc, engineVars, gatewayVars, visionVars, next_id>>

InitLog ==
    /\ mode = "log"
    /\ pc = "idle"
    /\ EngineInit
    /\ GatewayInit
    /\ VisionInit
    /\ LogInit

NextLog == AppendEntry \/ RemoveDisplayed

SpecLog == InitLog /\ [][NextLog]_vars

(***************************************************************************)
(* main(): sidebar and the "generate" button of the calculation tab        *)
(***************************************************************************)
\* any widget change reruns the script; the button's block is not run
Rerun ==
    /\ pc' = "idle"
    /\ bmr' = None
    /\ target_calories' = None
    /\ tdee' = None
    /\ weight_kg' = None
    /\ macros' = None

SetGender ==
    /\ mode = "ui"
    /\ \E g \in Genders \ {gender} : gender' = g
    /\ Rerun
    /\ UNCHANGED <<mode, age, height, weight, activity_key, goal_key, gatewayVars, visionVars, logVars>>

SetAge ==
    /\ mode = "ui"
    /\ \E a \in Ages \ {age} : age' = a
    /\ Rerun
    /\ UNCHANGED <<mode, gender, height, weight, activity_key, goal_key, gatewayVars, visionVars, logVars>>

SetHeight ==
    /\ mode = "ui"
    /\ \E h \in Heights \ {height} : height' = h
    /\ Rerun
    /\ UNCHANGED <<mode, gender, age, weight, activity_key, goal_key, gatewayVars, visionVars, logVars>>

SetWeight ==
    /\ mode = "ui"
    /\ \E w \in Weights \ {weight} : weight' = w
    /\ Rerun
    /\ UNCHANGED <<mode, gender, age, height, activity_key, goal_key, gatewayVars, visionVars, logVars>>

SelectActivity ==
    /\ mode = "ui"
    /\ \E k \in (DOMAIN ACTIVITY_LEVELS) \ {activity_key} : activity_key' = k
    /\ Rerun
    /\ UNCHANGED <<mode, gender, age, height, weight, goal_key, gatewayVars, visionVars, logVars>>

SelectGoal ==
    /\ mode = "ui"
    /\ \E k \in (DOMAIN GOAL_MODIFIERS) \ {goal_key} : goal_key' = k
    /\ Rerun
    /\ UNCHANGED <<mode, gender, age, height, weight, activity_key, gatewayVars, visionVars, logVars>>

\* the button handler: BMR -> TDEE -> goal -> partition_macros
Generate ==
    /\ mode = "ui"
    /\ pc = "idle"
    /\ LET b == calculate_bmr(Float(weight), Float(height), Float(age), gender)
           af == ACTIVITY_LEVELS[activity_key]
           tdee_maintenance == MulDec(b, af, 40)
           goal_mod == GOAL_MODIFIERS[goal_key]
           target == MulDec(tdee_maintenance, goal_mod, 20)
       IN  /\ bmr' = b
           /\ target_calories' = target
           /\ tdee' = target
           /\ weight_kg' = Float(weight)
           /\ macros' = partition_macros(target, Float(weight))
    /\ pc' = "shown"
    /\ UNCHANGED <<mode, gender, age, height, weight, activity_key, goal_key, gatewayVars, visionVars, logVars>>

InitUI ==
    /\ mode = "ui"
    /\ pc = "idle"
    /\ EngineInit
    /\ GatewayInit
    /\ VisionInit
    /\ LogInit

NextUI == SetGender \/ SetAge \/ SetHeight \/ SetWeight \/ SelectActivity \/ SelectGoal \/ Generate

SpecUI == InitUI /\ [][NextUI]_vars

(***************************************************************************)
(* partition_macros called directly, on arbitrary arguments                *)
(***************************************************************************)
CallPartitionMacros ==
    /\ mode = "macros"
    /\ \E t \in TdeeArgs, w \in WeightArgs :
          /\ tdee' = t
          /\ weight_kg' = w
          /\ macros' = partition_macros(t, w)
    /\ pc' = "returned"
    /\ UNCHANGED <<mode, gender, age, height, weight, activity_key, goal_key, bmr, target_calories, gatewayVars, visionVars, logVars>>

InitMacros ==
    /\ mode = "macros"
    /\ pc = "idle"
    /\ EngineInit
    /\ GatewayInit
    /\ VisionInit
    /\ LogInit

NextMacros == CallPartitionMacros

SpecMacros == InitMacros /\ [][NextMacros]_vars

(***************************************************************************)
(* Properties of MetabolicEngine                                           *)
(***************************************************************************)
MacroSum == macros.Protein.kcal + macros.Fat.kcal + macros.Carbs.kcal

\* protein kcal (8 x weight_kg) and fat kcal (25% of tdee) of the current call
ArgProteinKcal == 8 * weight_kg
ArgFatKcal == MulDec(tdee, 1, 4)

Returned == mode = "macros" /\ pc = "returned"

\* C1 (as claimed): for tdee >= 0 and weight_kg > 0 the three kcal fields never
\* add up to more than Total, also when the carbohydrate residual is clamped to 0.
C1_SumNeverAboveTotal ==
    (Returned /\ tdee >= 0 /\ weight_kg > 0) => MacroSum <= macros.Total

\* C1 (amended): for tdee >= 0 and weight_kg > 0, the three kcal fields add up to
\* at most Total (and to at least Total - 2) whenever protein kcal plus fat kcal
\* is at most tdee; when the residual is clamped, Carbs.kcal is 0 and the sum is
\* Protein.kcal + Fat.kcal, which is at least Total - 1.
C1_SumWithinTotalUnlessClamped ==
    (Returned /\ tdee >= 0 /\ weight_kg > 0) =>
        IF ArgProteinKcal + ArgFatKcal <= tdee
        THEN MacroSum <= macros.Total /\ macros.Total - MacroSum <= 2
        ELSE /\ macros.Carbs.kcal = 0
             /\ MacroSum = macros.Protein.kcal + macros.Fat.kcal
             /\ MacroSum >= macros.Total - 1

C1_Witness ==
    /\ Returned /\ tdee > 0 /\ weight_kg > 0
    /\ ArgProteinKcal + ArgFatKcal < tdee
    /\ macros.Carbs.kcal > 0
    /\ MacroSum < macros.Total

\* C2: Protein.g is int(2.0 x weight_kg) whatever tdee is, and Carbs.g and
\* Carbs.kcal are exactly 0 whenever protein kcal plus fat kcal reach tdee.
C2_ProteinFixedCarbsClamped ==
    Returned =>
        /\ macros.Protein.g = TruncDiv(2 * weight_kg, Scale)
        /\ (ArgProteinKcal + ArgFatKcal >= tdee =>
                macros.Carbs.g = 0 /\ macros.Carbs.kcal = 0)

C2_Witness ==
    /\ Returned /\ tdee > 0
    /\ ArgProteinKcal > tdee
    /\ macros.Protein.g > 0
    /\ macros.Carbs.g = 0 /\ macros.Carbs.kcal = 0

Shown == mode = "ui" /\ pc = "shown"

OtherGender == IF gender = Male THEN Female ELSE Male

\* C8: on the same weight, height and age the male BMR exceeds the female BMR
\* by exactly 166.
C8_MaleMinusFemale166 ==
    Shown =>
        LET other == calculate_bmr(Float(weight), Float(height), Float(age), OtherGender)
        IN  IF gender = Male THEN bmr - other = Float(166) ELSE other - bmr = Float(166)

C8_Witness ==
    /\ Shown /\ gender = Female
    /\ weight # DefaultWeight /\ height # DefaultHeight /\ age # DefaultAge
    /\ bmr = (10 * Float(weight)) + MulDec(Float(height), 25, 4) - (5 * Float(age)) - Float(161)

\* C10: every profile the sidebar can submit gives target calories strictly above
\* protein kcal plus fat kcal, so the clamp is idle, Carbs.kcal > 0 and the three
\* kcal fields add up to between Total - 2 and Total.
C10_UiProfilesNeverClamp ==
    Shown =>
        /\ target_calories > ArgProteinKcal + ArgFatKcal
        /\ macros.Carbs.kcal = int(target_calories - ArgProteinKcal - ArgFatKcal)
        /\ macros.Carbs.kcal > 0
        /\ MacroSum <= macros.Total
        /\ macros.Total - MacroSum <= 2

\* the profile with the least carbohydrate residual: heaviest, shortest, oldest,
\* female, sedentary, cutting
C10_Witness ==
    /\ Shown
    /\ weight = MaxWeight /\ height = MinHeight /\ age = MaxAge /\ gender = Female
    /\ activity_key = "Sedentary" /\ goal_key = "Cutting"
    /\ macros.Carbs.kcal = 187
    /\ MacroSum = macros.Total - 1

(***************************************************************************)
(* Properties of DataGateway.search_product                                *)
(***************************************************************************)
GwReturned == mode = "gateway" /\ pc = "returned"

ReplyElems == response.body.elems

\* the reply never reaches the loop: transport error, status, body or 'products'
FailsBeforeLoop ==
    \/ response.transport = "raises"
    \/ response.status_code # 200
    \/ response.body.kind # "object"
    \/ response.body.has_products /\ response.body.products_kind # "list"

NonObjectElem == \E i \in DOMAIN ReplyElems : ReplyElems[i].kind # "obj"

NutrimentsNotMap(i) ==
    /\ ReplyElems[i].kind = "obj"
    /\ ReplyElems[i].has_nutriments
    /\ ReplyElems[i].nutriments_kind # "map"

\* a nutriments value that is no map and is null or contains the energy key
NutrimentsBreaks(i) ==
    /\ NutrimentsNotMap(i)
    /\ ReplyElems[i].nutriments_kind \in {"null", "num"} \/ ReplyElems[i].contains

\* C3 (as claimed): search_product never raises, and returns an empty list on a
\* transport error, a status other than 200, and any malformed payload, a
\* 'nutriments' that is not a map included.
C3_NeverRaisesEmptyOnMalformed ==
    GwReturned =>
        /\ ~raised
        /\ (FailsBeforeLoop \/ NonObjectElem \/ \E i \in DOMAIN ReplyElems : NutrimentsNotMap(i))
               => db_results = <<>>

\* C3 (amended): search_product never raises; it returns an empty list on a
\* transport error, a status other than 200, a body that is not a JSON object, a
\* 'products' that is not a list of objects, and a 'nutriments' that is null or is
\* a string or list containing "energy-kcal_100g"; a product whose 'nutriments' is
\* a string or list without that key gives no record and leaves the others alone.
C3_NeverRaisesEmptyOnFailure ==
    GwReturned =>
        /\ ~raised
        /\ (FailsBeforeLoop \/ NonObjectElem \/ \E i \in DOMAIN ReplyElems : NutrimentsBreaks(i))
               => db_results = <<>>
        /\ \A j \in DOMAIN db_results : ~NutrimentsNotMap(db_results[j].id)

C3_Witness ==
    /\ GwReturned /\ ~raised
    /\ response.transport = "ok" /\ response.status_code = 200
    /\ Len(ReplyElems) = 2
    /\ ReplyElems[1].kind = "obj" /\ ReplyElems[1].nutriments_kind = "map"
    /\ ReplyElems[1].vals[EnergyKey] = RawNum(5250)
    /\ ReplyElems[2].kind = "str"
    /\ db_results = <<>>

NutrientFields(rec) == {rec.kcal, rec.protein, rec.carbs, rec.fat}

\* C4: the four nutrient fields of every returned record are numbers >= 0,
\* whatever the raw values in the reply are.
C4_NutrientsFiniteNonNegative ==
    GwReturned =>
        \A j \in DOMAIN db_results : \A v \in NutrientFields(db_results[j]) :
            v.t = "num" /\ v.n >= 0

\* the reply is well formed: status 200, a JSON object whose 'products', if any,
\* is a list of objects, each with no 'nutriments' or with a map
WellFormed ==
    /\ ~FailsBeforeLoop
    /\ ~NonObjectElem
    /\ \A i \in DOMAIN ReplyElems : ~NutrimentsNotMap(i)

DeclaresEnergy(i) == ReplyElems[i].has_nutriments /\ ReplyElems[i].vals[EnergyKey].t # "absent"

VisionDone == mode = "vision" /\ pc = "done"

\* C6: when the vision model fails to load, or the classifier call throws, the
\* tab shows the 'unavailable' state and no exception leaves the user action.
C6_ClassifierFailureIsUnavailable ==
    (VisionDone /\ layout_call = "ok" /\ (model_cache = "None" \/ classifier_call = "raises")) =>
        outcome = "unavailable" /\ ~raised

TableShown == VisionDone /\ outcome = "table"

NutrientColumns == {"protein", "carbs", "fat"}

\* C7 (as claimed): at portion = 100 the scaled protein, carbs and fat equal the
\* record's per-100g values exactly and the scaled kcal is the per-100g kcal
\* truncated to an integer.  (result_df is in tenths, the record in hundredths.)
C7_Portion100ReproducesRecord ==
    (TableShown /\ portion = 100) =>
        /\ result_df.kcal = TruncDiv(selected_food.kcal.n, 100)
        /\ \A c \in NutrientColumns : 10 * result_df[c] = selected_food[c].n

\* C7 (amended): at portion = 100, for a record whose four values are numbers, the
\* scaled kcal is the per-100g kcal truncated to an integer and the scaled protein,
\* carbs and fat are the per-100g values rounded to one decimal: within 0.05 of
\* them, and equal to them when they have at most one decimal.
C7_Portion100RoundsToOneDecimal ==
    (TableShown /\ portion = 100) =>
        /\ result_df.kcal = TruncDiv(selected_food.kcal.n, 100)
        /\ \A c \in NutrientColumns :
              /\ 10 * result_df[c] - selected_food[c].n \in -5..5
              /\ selected_food[c].n % 10 = 0 => 10 * result_df[c] = selected_food[c].n

C7_Witness ==
    /\ TableShown /\ portion = 100
    /\ selected_food.kcal = RawNum(8999) /\ result_df.kcal = 89
    /\ selected_food.protein = RawNum(327) /\ result_df.protein = 33
    /\ result_df.carbs = 12 /\ selected_food.carbs = RawNum(125)

(***************************************************************************)
(* Properties of FoodLog                                                   *)
(***************************************************************************)
JustRemoved == mode = "log" /\ removed_display >= 0

\* the entry shown at displayed position d (from 0) before the removal
ShownAt(d) == reverse_view(log_before)[d + 1]

\* C9: removing displayed position d of a log of length n removes exactly the
\* entry at chronological index n-1-d, the one shown there, and keeps every other
\* entry in its order; removing displayed position 0 removes the entry appended
\* last.
C9_RemoveDisplayedRemovesShownEntry ==
    JustRemoved =>
        LET n == Len(log_before)
            c == n - 1 - removed_display
        IN  /\ Len(food_log) = n - 1
            /\ \A i \in 1..c : food_log[i] = log_before[i]
            /\ \A i \in (c + 1)..(n - 1) : food_log[i] = log_before[i + 1]
            /\ \A i \in DOMAIN food_log : food_log[i].id # ShownAt(removed_display).id
            /\ removed_display = 0 =>
                  \A i \in DOMAIN log_before : log_before[i].id <= ShownAt(0).id
            /\ removed_display = 0 =>
                  \A i \in DOMAIN food_log : food_log[i].id < ShownAt(0).id

C9_Witness ==
    /\ JustRemoved /\ removed_display = 0
    /\ Len(log_before) = 3 /\ Len(food_log) = 2
    /\ log_before[1].id = 2 /\ log_before[3].id = 5
    /\ food_log[2].id < 5

====
